---- MODULE Spec2Model ----
(***************************************************************************)
(* Model of agent.py, the V1 job monitoring agent: main() loads            *)
(* profile.yaml, sources.yaml and seen.json, fetches every source, scores  *)
(* the postings it has not seen, rewrites seen.json and prints the hits.   *)
(***************************************************************************)
EXTENDS Integers, Sequences, FiniteSets, TLC

(***************************************************************************)
(* Python floats.  A float is IEEE-754 binary64.  Every float score_job    *)
(* and main() handle is a multiple of 2^-57 below 2 in magnitude, so it is *)
(* held exactly as sign and magnitude K = hi * 2^29 + lo in units of       *)
(* 2^-57; an arithmetic result is rounded to 53 significant bits, ties to  *)
(* even, as the hardware does.                                             *)
(***************************************************************************)
Limb == 2^29

FMake(neg, hi, lo) == [neg |-> neg, hi |-> hi, lo |-> lo]

FZero == FMake(FALSE, 0, 0)

\* 1.0 = 0x1.0p+0
FOne == FMake(FALSE, 268435456, 0)

\* the literal 0.05 = 0x1.999999999999ap-5
SKILL_WEIGHT == FMake(FALSE, 13421772, 429496730)

\* the literal 0.30 = 0x1.3333333333333p-2
EXCLUDE_WEIGHT == FMake(FALSE, 80530636, 429496728)

\* the literal 0.75 = 0x1.8p-1
DEFAULT_THRESHOLD == FMake(FALSE, 201326592, 0)

MagLess(a, b) == a.hi < b.hi \/ (a.hi = b.hi /\ a.lo < b.lo)

MagIsZero(a) == a.hi = 0 /\ a.lo = 0

\* number of low bits of a magnitude that do not fit in 53 significant bits
DropBits(hi) ==
    IF hi < 2^24 THEN 0
    ELSE IF hi < 2^25 THEN 1
    ELSE IF hi < 2^26 THEN 2
    ELSE IF hi < 2^27 THEN 3
    ELSE IF hi < 2^28 THEN 4
    ELSE IF hi < 2^29 THEN 5
    ELSE 6

\* round to nearest, ties to even, at 53 significant bits
Round53(neg, hi, lo) ==
    LET d    == DropBits(hi)
        q    == 2^d
        r    == lo % q
        kept == lo - r
        odd  == ((lo \div q) % 2) = 1
        up   == d > 0 /\ (2 * r > q \/ (2 * r = q /\ odd))
        lo2  == IF up THEN kept + q ELSE kept
    IN  IF lo2 >= Limb THEN FMake(neg, hi + 1, lo2 - Limb)
        ELSE FMake(neg, hi, lo2)

\* x + y
FAdd(x, y) ==
    IF x.neg = y.neg
    THEN LET s == x.lo + y.lo
             c == IF s >= Limb THEN 1 ELSE 0
         IN  Round53(x.neg, x.hi + y.hi + c, s - c * Limb)
    ELSE LET big   == IF MagLess(x, y) THEN y ELSE x
             small == IF MagLess(x, y) THEN x ELSE y
             b     == IF big.lo < small.lo THEN 1 ELSE 0
             hi    == big.hi - small.hi - b
             lo    == big.lo - small.lo + b * Limb
         IN  IF hi = 0 /\ lo = 0 THEN FZero ELSE Round53(big.neg, hi, lo)

\* x - y
FSub(x, y) == FAdd(x, FMake(~y.neg, y.hi, y.lo))

\* x < y
FLess(x, y) ==
    IF MagIsZero(x) /\ MagIsZero(y) THEN FALSE
    ELSE IF x.neg /\ ~y.neg THEN TRUE
    ELSE IF ~x.neg /\ y.neg THEN FALSE
    ELSE IF x.neg THEN MagLess(y, x)
    ELSE MagLess(x, y)

\* x >= y
FGe(x, y) == ~FLess(x, y)

(***************************************************************************)
(* Python strings are sequences of one-character strings.                  *)
(***************************************************************************)
\* str.lower() on one character, over the letters the inputs use
LowerChar(c) ==
    CASE c = "P" -> "p"
      [] c = "D" -> "d"
      [] c = "U" -> "u"
      [] OTHER   -> c

\* str.lower()
Lower(s) == [i \in 1..Len(s) |-> LowerChar(s[i])]

\* kw in text
IsSubstr(kw, text) ==
    \E i \in 0..(Len(text) - Len(kw)) : SubSeq(text, i + 1, i + Len(kw)) = kw

RECURSIVE LStrip(_)
LStrip(s) == IF s # <<>> /\ Head(s) = " " THEN LStrip(Tail(s)) ELSE s

RECURSIVE RStrip(_)
RStrip(s) ==
    IF s # <<>> /\ s[Len(s)] = " " THEN RStrip(SubSeq(s, 1, Len(s) - 1)) ELSE s

\* str.strip()
Strip(s) == RStrip(LStrip(s))

\* dict.get(key, default)
Get(d, key, default) == IF key \in DOMAIN d THEN d[key] ELSE default

(***************************************************************************)
(* score_job                                                               *)
(***************************************************************************)
\* the first loop of score_job: +0.05 for each skills keyword in the text
RECURSIVE AddSkills(_, _, _)
AddSkills(score, kws, text) ==
    IF kws = <<>> THEN score
    ELSE AddSkills(IF IsSubstr(Lower(Head(kws)), text)
                   THEN FAdd(score, SKILL_WEIGHT) ELSE score,
                   Tail(kws), text)

\* the second loop of score_job: -0.30 for each exclude keyword in the text
RECURSIVE SubExcludes(_, _, _)
SubExcludes(score, kws, text) ==
    IF kws = <<>> THEN score
    ELSE SubExcludes(IF IsSubstr(Lower(Head(kws)), text)
                     THEN FSub(score, EXCLUDE_WEIGHT) ELSE score,
                     Tail(kws), text)

\* the clipping at the end of score_job
Clip(score) ==
    IF FLess(score, FZero) THEN FZero
    ELSE IF FLess(FOne, score) THEN FOne
    ELSE score

\* score_job(job, profile), for a profile that is a mapping
score_job(job, profile) ==
    LET text == Lower(Get(job, "title", <<>>) \o <<" ">>
                      \o Get(job, "description", <<>>))
        s1   == AddSkills(FZero, Get(profile, "skills_keywords", <<>>), text)
        s2   == SubExcludes(s1, Get(profile, "exclude_keywords", <<>>), text)
    IN  Clip(s2)


(***************************************************************************)
(* The inputs: what profile.yaml, sources.yaml and the sources can hold.   *)
(***************************************************************************)
MaxItems == 2

W_python == <<"p", "y", "t", "h", "o", "n">>

W_Python == <<"P", "y", "t", "h", "o", "n">>

W_dev == <<"d", "e", "v">>

W_unpaid == <<"u", "n", "p", "a", "i", "d">>

W_Unpaid == <<"U", "n", "p", "a", "i", "d">>

W_PythonDev == W_Python \o <<" ">> \o <<"D", "e", "v">>

Url1 == <<"h", "t", "t", "p", "1">>

Url2 == <<"h", "t", "t", "p", "2">>

Url3 == <<"h", "t", "t", "p", "3">>

\* Python's None, where the other values are strings
None == "None"

\* an element an <item> lacks (item.title is None)
Absent == <<"None">>

\* the literal 0.1 = 0x1.999999999999ap-4
F010 == FMake(FALSE, 26843545, 322122548)

\* profile.yaml: absent, not a mapping (empty file, a list, a string), or a mapping
ProfileFiles ==
    { [kind |-> "missing", d |-> <<>>],
      [kind |-> "nonmapping", d |-> <<>>],
      [kind |-> "dict",
       d |-> [skills_keywords |-> <<W_python>>,
              exclude_keywords |-> <<W_unpaid>>,
              score_threshold |-> SKILL_WEIGHT]],
      [kind |-> "dict",
       d |-> [skills_keywords |-> <<W_python>>,
              exclude_keywords |-> <<W_unpaid>>]],
      [kind |-> "dict",
       d |-> [skills_keywords |-> <<W_Python, W_dev>>,
              score_threshold |-> SKILL_WEIGHT]],
      [kind |-> "dict",
       d |-> [skills_keywords |-> <<W_Python, W_dev>>,
              score_threshold |-> F010]] }

\* entries of the "sources" list of sources.yaml
Feed == [name |-> "feed", type |-> "rss", url |-> "u1"]

Page == [name |-> "page", type |-> "html", url |-> "u2"]

OldFtp == [name |-> "old", type |-> "ftp", url |-> "u3"]

NoUrl == [name |-> "nourl", type |-> "rss"]

NoType == [url |-> "u4"]

\* the "sources" lists of sources.yaml
SourceLists ==
    { <<>>, <<Feed>>, <<Page>>, <<Feed, Page>>, <<Page, Feed>>, <<Feed, Feed>>,
      <<OldFtp, Feed>>, <<Feed, NoUrl>>, <<NoType, Page>>,
      <<Feed, OldFtp, Page>>, <<NoUrl, Feed, NoType>> }

SeqsUpTo(S, n) == UNION { [1..k -> S] : k \in 0..n }

\* sources.yaml: absent, not a mapping, a mapping without "sources", or a mapping
SourcesFiles ==
    { [kind |-> "missing", d |-> <<>>],
      [kind |-> "nonmapping", d |-> <<>>],
      [kind |-> "dict", d |-> [version |-> "1"]] }
    \cup { [kind |-> "dict", d |-> [sources |-> l]] : l \in SourceLists }

\* the <item> elements a feed can serve: the text of its <title>, <link> and
\* <description>, Absent for an element it lacks
RssItems ==
    { [title |-> W_PythonDev, link |-> Url1, description |-> Absent],
      [title |-> W_PythonDev, link |-> Url2, description |-> W_Unpaid],
      [title |-> W_Python, link |-> <<" ">> \o Url1 \o <<" ">>,
       description |-> <<>>],
      [title |-> W_Python, link |-> Absent, description |-> <<>>] }

\* the <a href> elements a page can serve: the visible text and the href
HtmlAnchors ==
    { [text |-> W_Python, href |-> Url3 \o <<" ">>],
      [text |-> <<" ">>, href |-> Url1],
      [text |-> W_PythonDev, href |-> <<"/", "3">>] }

\* what a request can end in: an exception, or a document
ERROR == [ok |-> FALSE, doc |-> <<>>]

Responses(src_type) ==
    IF src_type = "rss"
    THEN {ERROR} \cup { [ok |-> TRUE, doc |-> d] : d \in SeqsUpTo(RssItems, MaxItems) }
    ELSE IF src_type = "html"
    THEN {ERROR} \cup { [ok |-> TRUE, doc |-> d] : d \in SeqsUpTo(HtmlAnchors, MaxItems) }
    ELSE {ERROR}

(***************************************************************************)
(* The fetchers                                                            *)
(***************************************************************************)
\* s.startswith(p)
StartsWith(s, p) == Len(s) >= Len(p) /\ SubSeq(s, 1, Len(p)) = p

\* x.text.strip() if x else ""
TextOf(x) == IF x = Absent THEN <<>> ELSE Strip(x)

\* fetch_rss on a parsed document
fetch_rss(doc) ==
    [i \in 1..Len(doc) |->
        [title |-> TextOf(doc[i].title),
         link |-> TextOf(doc[i].link),
         description |-> TextOf(doc[i].description)]]

RECURSIVE fetch_html_links(_)
\* fetch_html_links on a parsed document
fetch_html_links(doc) ==
    IF doc = <<>> THEN <<>>
    ELSE LET title == Strip(Head(doc).text)
             link  == Strip(Head(doc).href)
             rest  == fetch_html_links(Tail(doc))
         IN  IF title # <<>> /\ StartsWith(link, <<"h", "t", "t", "p">>)
             THEN <<[title |-> title, link |-> link, description |-> <<>>]>> \o rest
             ELSE rest


(***************************************************************************)
(* seen.json                                                               *)
(***************************************************************************)
\* the code point order of the characters of the links
Ord(c) ==
    CASE c = " " -> 32
      [] c = "/" -> 47
      [] c = "1" -> 49
      [] c = "2" -> 50
      [] c = "3" -> 51
      [] c = "h" -> 104
      [] c = "p" -> 112
      [] c = "t" -> 116
      [] OTHER   -> 0

RECURSIVE StrLess(_, _)
\* a < b on strings
StrLess(a, b) ==
    IF b = <<>> THEN FALSE
    ELSE IF a = <<>> THEN TRUE
    ELSE IF Head(a) # Head(b) THEN Ord(Head(a)) < Ord(Head(b))
    ELSE StrLess(Tail(a), Tail(b))

RECURSIVE sorted_list(_)
\* sorted(list(seen))
sorted_list(S) ==
    IF S = {} THEN <<>>
    ELSE LET m == CHOOSE x \in S : \A y \in S \ {x} : StrLess(x, y)
         IN  <<m>> \o sorted_list(S \ {m})

\* seen.json: the links written so far, and whether the JSON text is whole
NoFile == [exists |-> FALSE, text |-> <<>>, whole |-> FALSE]

\* open(SEEN_FILE, "w"): the file is created or cut to nothing
Truncated == [exists |-> TRUE, text |-> <<>>, whole |-> FALSE]

\* the file when json.dump's text has reached it up to the k-th link only
Partial(seen, k) ==
    [exists |-> TRUE, text |-> SubSeq(sorted_list(seen), 1, k), whole |-> FALSE]

\* the file once save_seen has returned
Saved(seen) == [exists |-> TRUE, text |-> sorted_list(seen), whole |-> TRUE]

\* whether json.load raises on the file
Unparseable(file) == file.exists /\ ~file.whole

\* a load_seen that forgets the file: C3 must not hold of it
load_seenEmpty(file) == {}

\* load_seen, for a file json.load accepts
load_seen(file) ==
    IF file.exists THEN { file.text[i] : i \in 1..Len(file.text) } ELSE {}

(***************************************************************************)
(* main: the loop over the jobs of one source                              *)
(***************************************************************************)
\* a loop that lets the empty link through: C10 must not hold of it
NoLinkNever(link) == FALSE

\* a loop that does not look into seen: C1 must not hold of it
AlreadySeenNever(link, seen) == FALSE

\* a strict comparison with the threshold: C6 must not hold of it
MeetsThresholdStrict(score, threshold) == FLess(threshold, score)

\* a loop that does not mark what it has scored: C2 must not hold of it
MarkSeenNot(seen, link) == seen

\* if not link: continue
NoLink(link) == link = <<>>

\* if link in seen: continue
AlreadySeen(link, seen) == link \in seen

\* if score >= threshold
MeetsThreshold(score, threshold) == FGe(score, threshold)

\* seen.add(link)
MarkSeen(seen, link) == seen \cup {link}

\* float(profile.get("score_threshold", 0.75))
Threshold(profile) == Get(profile, "score_threshold", DEFAULT_THRESHOLD)

\* job.get("link", "").strip()
LinkOf(job) == Strip(Get(job, "link", <<>>))

RECURSIVE ProcessJobs(_, _, _, _)
\* for job in jobs: ... ; st holds seen, new_hits, the jobs passed to score_job
\* with what it returned, and whether score_job raised (a profile that is
\* not a mapping has no .get)
ProcessJobs(jobs, st, prof, src_name) ==
    IF jobs = <<>> \/ st.raised THEN st
    ELSE LET job  == Head(jobs)
             link == LinkOf(job)
         IN  IF NoLink(link) THEN ProcessJobs(Tail(jobs), st, prof, src_name)
             ELSE IF AlreadySeen(link, st.seen)
             THEN ProcessJobs(Tail(jobs), st, prof, src_name)
             ELSE IF prof.kind # "dict"
             THEN [st EXCEPT !.raised = TRUE,
                             !.scored = @ \cup {[job |-> job, score |-> <<>>]}]
             ELSE LET score     == score_job(job, prof.d)
                      threshold == Threshold(prof.d)
                      hits      == IF MeetsThreshold(score, threshold)
                                   THEN Append(st.hits,
                                               [score |-> score, job |-> job,
                                                src_name |-> src_name])
                                   ELSE st.hits
                  IN  ProcessJobs(Tail(jobs),
                                  [seen |-> MarkSeen(st.seen, link),
                                   hits |-> hits,
                                   scored |-> st.scored
                                       \cup {[job |-> job, score |-> <<score>>]},
                                   raised |-> FALSE],
                                  prof, src_name)

\* not x, for None and strings
Falsy(x) == x = None \/ x = ""

\* a try block whose except clause lets the fetcher's exception through: C4
\* must not hold of it
FetchUncaught(src_type, response) ==
    IF src_type = "rss"
    THEN IF response.ok THEN [status |-> "ok", jobs |-> fetch_rss(response.doc)]
         ELSE [status |-> "raised", jobs |-> <<>>]
    ELSE IF src_type = "html"
    THEN IF response.ok
         THEN [status |-> "ok", jobs |-> fetch_html_links(response.doc)]
         ELSE [status |-> "raised", jobs |-> <<>>]
    ELSE [status |-> "unknown type", jobs |-> <<>>]

\* the try block: the status of the source and the jobs it yields ("raised"
\* would be an exception that "except Exception" lets through)
Fetch(src_type, response) ==
    IF src_type = "rss"
    THEN IF response.ok THEN [status |-> "ok", jobs |-> fetch_rss(response.doc)]
         ELSE [status |-> "failed", jobs |-> <<>>]
    ELSE IF src_type = "html"
    THEN IF response.ok
         THEN [status |-> "ok", jobs |-> fetch_html_links(response.doc)]
         ELSE [status |-> "failed", jobs |-> <<>>]
    ELSE [status |-> "unknown type", jobs |-> <<>>]

\* the links of a list of jobs, the empty one among them
LinksOf(jobs) == { LinkOf(jobs[i]) : i \in 1..Len(jobs) }

(***************************************************************************)
(* main: the report                                                        *)
(***************************************************************************)
RECURSIVE InsertDescTies(_, _)
\* a sort that puts h before the elements of its own score: C8 must not hold
\* of it
InsertDescTies(sorted, h) ==
    IF sorted = <<>> THEN <<h>>
    ELSE IF ~FLess(h.score, Head(sorted).score) THEN <<h>> \o sorted
    ELSE <<Head(sorted)>> \o InsertDescTies(Tail(sorted), h)

RECURSIVE InsertDesc(_, _)
\* h put behind every element whose score is not below its own
InsertDesc(sorted, h) ==
    IF sorted = <<>> THEN <<h>>
    ELSE IF FLess(Head(sorted).score, h.score) THEN <<h>> \o sorted
    ELSE <<Head(sorted)>> \o InsertDesc(Tail(sorted), h)

RECURSIVE SortFrom(_, _)
SortFrom(sorted, hits) ==
    IF hits = <<>> THEN sorted
    ELSE SortFrom(InsertDesc(sorted, Head(hits)), Tail(hits))

\* sorted(new_hits, key=lambda x: x[0], reverse=True): stable
sorted_hits(hits) == SortFrom(<<>>, hits)

NO_REPORT == [banner |-> "", lines |-> <<>>]

\* what main prints at its end
Printed(hits) ==
    IF hits # <<>>
    THEN [banner |-> "=== New matching jobs ===", lines |-> sorted_hits(hits)]
    ELSE [banner |-> "No new matching jobs today.", lines |-> <<>>]


(***************************************************************************)
(* The state                                                               *)
(***************************************************************************)
VARIABLES
    profileFile,  \* profile.yaml
    sourcesFile,  \* sources.yaml
    disk,         \* seen.json
    pc,           \* where main is: idle, sources, writing, done,
                  \* crashed (an exception left main), killed
    error,        \* the exception that left main
    profile,      \* main's profile
    sources,      \* main's sources
    seen,         \* main's seen
    new_hits,     \* main's new_hits
    srcIdx,       \* the index in sources of the next src
    report,       \* what the run printed at its end
    disk0,        \* history: seen.json when the run started
    fetches,      \* history: the requests the run has issued
    scored,       \* history: the jobs the run has passed to score_job, each
                  \* with the score returned
    extracted,    \* history: the links of the jobs the run's fetchers returned
    srcLog,       \* history: how each source of the run ended
    everHit,      \* history: the links of the hits of the completed runs
    prevLinks     \* history: extracted, of the run before this one when it
                  \* completed

vars ==
    <<profileFile, sourcesFile, disk, pc, error, profile, sources, seen,
      new_hits, srcIdx, report, disk0, fetches, scored, extracted, srcLog,
      everHit, prevLinks>>

files == <<profileFile, sourcesFile>>

memory == <<profile, sources, seen, new_hits, srcIdx>>

history == <<everHit, prevLinks>>

NO_PROFILE == [kind |-> "unset", d |-> <<>>]

Running == pc \in {"sources", "writing"}

\* the seen-set the run loaded
Loaded == load_seen(disk0)

\* seen.json before a run: absent, cut short by a kill, or as a run saved it
SeenFiles ==
    {NoFile, Truncated} \cup { Saved(S) : S \in SUBSET {Url1, Url2, Url3} }

InitWith(P, S, D) ==
    /\ profileFile \in P
    /\ sourcesFile \in S
    /\ disk \in D
    /\ pc = "idle"
    /\ error = ""
    /\ profile = NO_PROFILE
    /\ sources = <<>>
    /\ seen = {}
    /\ new_hits = <<>>
    /\ srcIdx = 1
    /\ report = NO_REPORT
    /\ disk0 = disk
    /\ fetches = 0
    /\ scored = {}
    /\ extracted = {}
    /\ srcLog = <<>>
    /\ everHit = {}
    /\ prevLinks = {}

Init == InitWith(ProfileFiles, SourcesFiles, SeenFiles)

\* an exception leaves main: the process ends, its memory is gone
Raise(e) ==
    /\ pc' = "crashed"
    /\ error' = e
    /\ profile' = NO_PROFILE
    /\ sources' = <<>>
    /\ seen' = {}
    /\ new_hits' = <<>>
    /\ srcIdx' = 1

\* the exception the loading of the configuration and of seen.json ends in,
\* "" when there is none
LoadError ==
    IF profileFile.kind = "missing" THEN "FileNotFoundError: profile.yaml"
    ELSE IF sourcesFile.kind = "missing" THEN "FileNotFoundError: sources.yaml"
    ELSE IF sourcesFile.kind # "dict" THEN "AttributeError: sources_cfg.get"
    ELSE IF Unparseable(disk) THEN "JSONDecodeError: seen.json"
    ELSE ""

\* main from its first line to the loop over the sources
Load ==
    /\ disk0' = disk
    /\ fetches' = 0
    /\ scored' = {}
    /\ extracted' = {}
    /\ srcLog' = <<>>
    /\ report' = NO_REPORT
    /\ IF LoadError # "" THEN Raise(LoadError)
       ELSE /\ pc' = "sources"
            /\ error' = ""
            /\ profile' = profileFile
            /\ sources' = Get(sourcesFile.d, "sources", <<>>)
            /\ seen' = load_seen(disk)
            /\ new_hits' = <<>>
            /\ srcIdx' = 1
    /\ UNCHANGED <<files, disk, everHit>>

\* main() is started
Start ==
    /\ pc = "idle"
    /\ Load
    /\ UNCHANGED prevLinks

\* main() is started again, right after a run that has ended
Restart ==
    /\ pc \in {"done", "crashed", "killed"}
    /\ prevLinks' = IF pc = "done" THEN extracted ELSE {}
    /\ Load

\* one turn of "for src in sources" whose source lacks its type or its url
SkipSource ==
    /\ pc = "sources"
    /\ srcIdx <= Len(sources)
    /\ LET src == sources[srcIdx]
       IN  Falsy(Get(src, "type", None)) \/ Falsy(Get(src, "url", None))
    /\ srcIdx' = srcIdx + 1
    /\ srcLog' = Append(srcLog, "misconfigured")
    /\ UNCHANGED <<files, disk, pc, error, profile, sources, seen, new_hits,
                   report, disk0, fetches, scored, extracted, history>>

\* one turn of "for src in sources" that reaches the try block
ProcessSource ==
    /\ pc = "sources"
    /\ srcIdx <= Len(sources)
    /\ LET src      == sources[srcIdx]
           src_name == Get(src, "name", "Unknown source")
           src_type == Get(src, "type", None)
           src_url  == Get(src, "url", None)
       IN  /\ ~(Falsy(src_type) \/ Falsy(src_url))
           /\ \E response \in Responses(src_type) :
                LET got == Fetch(src_type, response)
                    st  == ProcessJobs(got.jobs,
                                       [seen |-> seen, hits |-> new_hits,
                                        scored |-> scored, raised |-> FALSE],
                                       profile, src_name)
                IN  /\ fetches' = IF src_type \in {"rss", "html"}
                                  THEN fetches + 1 ELSE fetches
                    /\ srcLog' = Append(srcLog, got.status)
                    /\ scored' = st.scored
                    /\ extracted' = extracted \cup LinksOf(got.jobs)
                    /\ IF got.status = "raised"
                       THEN Raise("Exception: fetch")
                       ELSE IF st.raised
                       THEN Raise("AttributeError: profile.get")
                       ELSE /\ seen' = st.seen
                            /\ new_hits' = st.hits
                            /\ srcIdx' = srcIdx + 1
                            /\ UNCHANGED <<pc, error, profile, sources>>
    /\ UNCHANGED <<files, disk, report, disk0, history>>

\* save_seen opens seen.json for writing
SaveOpen ==
    /\ pc = "sources"
    /\ srcIdx > Len(sources)
    /\ pc' = "writing"
    /\ disk' = Truncated
    /\ UNCHANGED <<files, error, memory, report, disk0, fetches, scored,
                   extracted, srcLog, history>>

\* the with block of save_seen ends: the text is whole and the file closed;
\* main prints the results and returns
Finish ==
    /\ pc = "writing"
    /\ disk' = Saved(seen)
    /\ report' = Printed(new_hits)
    /\ pc' = "done"
    /\ everHit' = everHit \cup { LinkOf(new_hits[i].job) :
                                 i \in 1..Len(new_hits) }
    /\ UNCHANGED <<files, error, memory, disk0, fetches, scored, extracted,
                   srcLog, prevLinks>>

\* the process is killed from outside: its memory is gone, and so is what
\* the run had done so far.  Killed inside save_seen, it leaves in seen.json
\* the part of json.dump's text that had reached the file
Kill ==
    /\ pc \in {"sources", "writing"}
    /\ IF pc = "writing"
       THEN \E k \in 0..Cardinality(seen) : disk' = Partial(seen, k)
       ELSE disk' = disk
    /\ pc' = "killed"
    /\ profile' = NO_PROFILE
    /\ sources' = <<>>
    /\ seen' = {}
    /\ new_hits' = <<>>
    /\ srcIdx' = 1
    /\ fetches' = 0
    /\ scored' = {}
    /\ extracted' = {}
    /\ srcLog' = <<>>
    /\ UNCHANGED <<files, error, report, disk0, history>>

\* the user edits profile.yaml between two runs
EditProfile ==
    /\ pc \in {"done", "crashed", "killed"}
    /\ \E p \in ProfileFiles : p # profileFile /\ profileFile' = p
    /\ pc' = "idle"
    /\ error' = ""
    /\ report' = NO_REPORT
    /\ disk0' = disk
    /\ fetches' = 0
    /\ scored' = {}
    /\ extracted' = {}
    /\ srcLog' = <<>>
    /\ prevLinks' = {}
    /\ UNCHANGED <<sourcesFile, disk, memory, everHit>>

Next ==
    \/ Start
    \/ SkipSource
    \/ ProcessSource
    \/ SaveOpen
    \/ Finish
    \/ Kill

\* one run of main()
Spec == Init /\ [][Next]_vars

\* the configurations of the runs that follow one another
RunProfiles == { p \in ProfileFiles : p.kind = "dict" }

RunSources ==
    { [kind |-> "dict", d |-> [sources |-> l]] :
      l \in { <<Feed>>, <<NoUrl, Feed, Page>> } }

InitRuns == InitWith(RunProfiles, RunSources, {NoFile})

NextRuns ==
    \/ Next
    \/ Restart
    \/ EditProfile

\* run after run of main(), from a first run without seen.json
SpecRuns == InitRuns /\ [][NextRuns]_vars


(***************************************************************************)
(* score_job on long keyword lists: one run over a feed, under profiles    *)
(* whose threshold of 0.0 makes a hit of every job that is scored          *)
(***************************************************************************)
MaxSkills == 22

MaxExcludes == 3

\* the substrings of length n of a text, from left to right
Windows(text, n) == [i \in 1..(Len(text) - n + 1) |-> SubSeq(text, i, i + n - 1)]

PoolText == W_python \o <<" ">> \o W_dev

SkillPool == Windows(PoolText, 1) \o Windows(PoolText, 2) \o Windows(PoolText, 3)

ExcludePool == <<W_unpaid, <<"u", "n">>, <<"p", "a", "i", "d">>, <<"a", "i">>>>

Least(a, b) == IF a < b THEN a ELSE b

ScoreProfiles ==
    { [kind |-> "dict",
       d |-> [skills_keywords |-> SubSeq(SkillPool, 1, n),
              exclude_keywords |-> SubSeq(ExcludePool, 1, m),
              score_threshold |-> FZero]] :
      n \in 0..Least(MaxSkills, Len(SkillPool)),
      m \in 0..Least(MaxExcludes, Len(ExcludePool)) }

InitScore ==
    InitWith(ScoreProfiles,
             {[kind |-> "dict", d |-> [sources |-> <<NoUrl, Feed>>]]},
             {NoFile})

\* one run of main() under a profile with many keywords
SpecScore == InitScore /\ [][Next]_vars

(***************************************************************************)
(* What the claims are stated with                                         *)
(***************************************************************************)
\* the hits of the run, as a set
HitSet == { new_hits[i] : i \in 1..Len(new_hits) }

HitLinks == { LinkOf(h.job) : h \in HitSet }

\* main has loaded its configuration and has not been ended from outside
InRun == pc \in {"sources", "writing", "done"}

\* the text score_job searches
TextOfJob(job) ==
    Lower(Get(job, "title", <<>>) \o <<" ">> \o Get(job, "description", <<>>))

\* how many entries of a keyword list are in the text of a job
Present(kws, job) ==
    Cardinality({ i \in 1..Len(kws) : IsSubstr(Lower(kws[i]), TextOfJob(job)) })

\* n * x as Python computes it for a float x >= 0 and an int n >= 0: the exact
\* product, rounded once
FMulNat(x, n) ==
    LET l0 == x.lo % 2^15
        l1 == x.lo \div 2^15
        p0 == n * l0
        p1 == n * l1 + (p0 \div 2^15)
    IN  Round53(FALSE, n * x.hi + (p1 \div 2^14),
                (p1 % 2^14) * 2^15 + (p0 % 2^15))

\* the float nearest to j/20 (the literals 0.0, 0.05, 0.1, ... 1.0), j in 0..20
Twentieths ==
    << <<0, 0>>, <<13421772, 429496730>>, <<26843545, 322122548>>,
       <<40265318, 214748364>>, <<53687091, 107374184>>, <<67108864, 0>>,
       <<80530636, 429496728>>, <<93952409, 322122544>>, <<107374182, 214748368>>,
       <<120795955, 107374184>>, <<134217728, 0>>, <<147639500, 429496736>>,
       <<161061273, 322122544>>, <<174483046, 214748368>>, <<187904819, 107374176>>,
       <<201326592, 0>>, <<214748364, 429496736>>, <<228170137, 322122544>>,
       <<241591910, 214748368>>, <<255013683, 107374176>>, <<268435456, 0>> >>

Twentieth(j) == FMake(FALSE, Twentieths[j + 1][1], Twentieths[j + 1][2])

\* 0.05 * n - 0.30 * m clipped to [0, 1]: in exact arithmetic, then as a float;
\* and as Python evaluates the expression
ClaimedScores(n, m) ==
    LET j == n - 6 * m
    IN  { Twentieth(IF j < 0 THEN 0 ELSE IF j > 20 THEN 20 ELSE j),
          Clip(FSub(FMulNat(SKILL_WEIGHT, n), FMulNat(EXCLUDE_WEIGHT, m))) }

(***************************************************************************)
(* C1: a link in the set load_seen returned at the start of a run is        *)
(* never passed to score_job and never appended to new_hits during that    *)
(* run, whichever source yields it and however often.                      *)
(***************************************************************************)
C1_SeenNeverScored ==
    /\ \A e \in scored : LinkOf(e.job) \notin Loaded
    /\ \A h \in HitSet : LinkOf(h.job) \notin Loaded

\* a completed run whose sources yielded a link that was loaded, next to a
\* job that became a hit
C1_SeenLinkReappeared ==
    /\ pc = "done"
    /\ new_hits # <<>>
    /\ extracted \cap Loaded # {}

(***************************************************************************)
(* C10: when a run completes, seen.json holds exactly the loaded set and   *)
(* the stripped non-empty links of the jobs its fetchers returned: no      *)
(* loaded link is lost, every hit's link is saved, and a job with an empty *)
(* link is neither scored nor saved.                                       *)
(***************************************************************************)
C10_SavedSet ==
    pc = "done" =>
        /\ disk = Saved(Loaded \cup (extracted \ {<<>>}))
        /\ Loaded \subseteq load_seen(disk)
        /\ HitLinks \subseteq load_seen(disk)
        /\ <<>> \notin load_seen(disk)
        /\ \A e \in scored : LinkOf(e.job) # <<>>

\* a completed run that had loaded links, was given new ones, and a job
\* without a link
C10_GrewAndSkippedEmpty ==
    /\ pc = "done"
    /\ Loaded # {}
    /\ (extracted \ {<<>>}) \ Loaded # {}
    /\ <<>> \in extracted

(***************************************************************************)
(* C6: a scored job is in new_hits exactly when its score is greater than  *)
(* or equal to the profile's score_threshold (0.75 when the profile has    *)
(* none).  With skills [python], excludes [unpaid] and threshold 0.05, a   *)
(* job matching python alone scores 0.05 and is a hit; one matching both   *)
(* scores 0.0 and is none.                                                 *)
(***************************************************************************)
ScenarioProfile ==
    [skills_keywords |-> <<W_python>>,
     exclude_keywords |-> <<W_unpaid>>,
     score_threshold |-> SKILL_WEIGHT]

IsHit(job, score) == \E h \in HitSet : h.job = job /\ h.score = score

IsHitJob(job) == \E h \in HitSet : h.job = job

C6_HitIffAtLeastThreshold ==
    profile.kind = "dict" =>
        \A e \in scored :
            /\ e.score # <<>>
            /\ IsHit(e.job, e.score[1]) <=> FGe(e.score[1], Threshold(profile.d))
            /\ IsHitJob(e.job) => IsHit(e.job, e.score[1])
            /\ profile.d = ScenarioProfile =>
                 LET skills   == Present(<<W_python>>, e.job)
                     excludes == Present(<<W_unpaid>>, e.job)
                 IN  /\ (skills = 1 /\ excludes = 0) =>
                            e.score[1] = SKILL_WEIGHT /\ IsHitJob(e.job)
                     /\ (skills = 1 /\ excludes = 1) =>
                            e.score[1] = FZero /\ ~IsHitJob(e.job)

\* a completed run under the profile of the scenario that scored a job
\* matching python alone and one matching python and unpaid
C6_ScenarioRan ==
    /\ pc = "done"
    /\ profile.d = ScenarioProfile
    /\ \E e1, e2 \in scored :
         /\ Present(<<W_python>>, e1.job) = 1
         /\ Present(<<W_unpaid>>, e1.job) = 0
         /\ e1.score = <<SKILL_WEIGHT>>
         /\ Present(<<W_python>>, e2.job) = 1
         /\ Present(<<W_unpaid>>, e2.job) = 1

(***************************************************************************)
(* C8: the report of a completed run lists exactly the hits of the run, by *)
(* score descending, hits of equal score in the order in which they were   *)
(* appended; with no hit the run prints "No new matching jobs today."      *)
(* and no listing.                                                         *)
(***************************************************************************)
\* where x is in seq
IndexIn(seq, x) == CHOOSE k \in 1..Len(seq) : seq[k] = x

C8_ReportSortedStable ==
    pc = "done" =>
        IF new_hits = <<>>
        THEN report = [banner |-> "No new matching jobs today.", lines |-> <<>>]
        ELSE /\ report.banner = "=== New matching jobs ==="
             /\ Len(report.lines) = Len(new_hits)
             /\ { report.lines[i] : i \in 1..Len(report.lines) } = HitSet
             /\ \A i, j \in 1..Len(report.lines) :
                  i < j =>
                    /\ ~FLess(report.lines[i].score, report.lines[j].score)
                    /\ report.lines[i].score = report.lines[j].score =>
                         IndexIn(new_hits, report.lines[i])
                             < IndexIn(new_hits, report.lines[j])

\* a completed run with three hits: the first below the second, the second
\* and the third of one score
C8_TieBehindLowerHit ==
    /\ pc = "done"
    /\ Len(new_hits) = 3
    /\ FLess(new_hits[1].score, new_hits[2].score)
    /\ new_hits[2].score = new_hits[3].score

(***************************************************************************)
(* C4: a source that fails (no type or no url, a type that is neither rss  *)
(* nor html, an error raised by its fetcher) does not end the run: it adds *)
(* nothing to new_hits and nothing to seen, the loop goes on to the next   *)
(* source in the order of the list, and the run saves seen and prints its  *)
(* report.                                                                 *)
(***************************************************************************)
Failures == {"misconfigured", "unknown type", "failed", "raised"}

\* how the turn of the loop for src must end, as far as src alone tells
ExpectedStatus(src) ==
    IF Falsy(Get(src, "type", None)) \/ Falsy(Get(src, "url", None))
    THEN {"misconfigured"}
    ELSE IF Get(src, "type", None) \in {"rss", "html"} THEN {"ok", "failed"}
    ELSE {"unknown type"}

\* a step that ends the turn of a source in a failure
C4_FailingTurn ==
    (Len(srcLog') = Len(srcLog) + 1 /\ srcLog'[Len(srcLog')] \in Failures) =>
        /\ pc' = "sources"
        /\ error' = ""
        /\ seen' = seen
        /\ new_hits' = new_hits
        /\ srcIdx' = srcIdx + 1
        /\ sources' = sources

C4_SourcesInOrder ==
    /\ error # "Exception: fetch"
    /\ InRun =>
         /\ Len(srcLog) = srcIdx - 1
         /\ \A i \in 1..Len(srcLog) : srcLog[i] \in ExpectedStatus(sources[i])
    /\ pc = "done" =>
         /\ Len(srcLog) = Len(sources)
         /\ disk = Saved(seen)
         /\ report = Printed(new_hits)

C4_FailureIsolated == []C4_SourcesInOrder /\ [][C4_FailingTurn]_vars

\* a completed run in which a fetcher raised, a later source was fetched and
\* a job became a hit
C4_FailedThenFetched ==
    /\ pc = "done"
    /\ new_hits # <<>>
    /\ \E i, j \in 1..Len(srcLog) :
         i < j /\ srcLog[i] = "failed" /\ srcLog[j] = "ok"

(***************************************************************************)
(* C5: at every point of a run, a kill at any step included, seen.json is  *)
(* either what it was when the run started or the complete final set;      *)
(* never an empty, partial or unparseable text.                            *)
(***************************************************************************)
C5_SeenFileAtomic ==
    \/ disk = disk0
    \/ pc = "done" /\ disk = Saved(seen)

(***************************************************************************)
(* C9: when profile.yaml or sources.yaml is missing or is not a mapping,   *)
(* the run ends in an error before it fetches any source, and seen.json is *)
(* left as it was.                                                         *)
(***************************************************************************)
BadConfig == profileFile.kind # "dict" \/ sourcesFile.kind # "dict"

C9_ConfigHardStop ==
    (BadConfig /\ pc # "idle") =>
        /\ pc # "done"
        /\ fetches = 0
        /\ disk = disk0

(***************************************************************************)
(* C2: over runs that follow one another, each loading the seen.json the   *)
(* one before it saved, a link is a hit at most once: every job that is    *)
(* scored has its link added to seen, whatever its score, so no link is a  *)
(* hit twice in one run, and no link that was a hit of a completed run is  *)
(* a hit of a later one, even under another profile.                       *)
(***************************************************************************)
C2_HitAtMostOnce ==
    /\ \A i, j \in 1..Len(new_hits) :
         i # j => LinkOf(new_hits[i].job) # LinkOf(new_hits[j].job)
    /\ Running => HitLinks \cap everHit = {}
    /\ InRun => \A e \in scored : LinkOf(e.job) \in seen

\* a completed run that was given again a link that had been a hit of a run
\* before it, and that had a hit of its own
C2_OldHitReturned ==
    /\ pc = "done"
    /\ new_hits # <<>>
    /\ \E link \in everHit \cap extracted : link \in Loaded /\ link \notin HitLinks

(***************************************************************************)
(* C3: a run that follows a completed run, loads the seen.json that run    *)
(* saved and is given no link that run was not given has no hit, and       *)
(* prints "No new matching jobs today."                                    *)
(***************************************************************************)
C3_SecondRunEmpty ==
    (pc = "done" /\ extracted \subseteq prevLinks) =>
        /\ new_hits = <<>>
        /\ report = [banner |-> "No new matching jobs today.", lines |-> <<>>]

\* a completed run given the links of the completed run before it, which had
\* a hit
C3_SameLinksTwice ==
    /\ pc = "done"
    /\ extracted = prevLinks
    /\ extracted \cap everHit # {}

(***************************************************************************)
(* C7: score_job returns 0.05 times the number of skills keywords in the   *)
(* text of the job minus 0.30 times the number of exclude keywords in it,  *)
(* clipped once to [0, 1].                                                 *)
(***************************************************************************)
C7_ScoreIsFormula ==
    profile.kind = "dict" =>
        \A e \in scored :
            e.score # <<>> =>
                e.score[1] \in
                    ClaimedScores(
                        Present(Get(profile.d, "skills_keywords", <<>>), e.job),
                        Present(Get(profile.d, "exclude_keywords", <<>>), e.job))

====
